---- MODULE Spec2Model ----
(***************************************************************************)
(* Verification model of gfh-notification-service.                         *)
(*                                                                         *)
(*   Spec      the consume callbacks of RabbitMQService (consumeMessage,   *)
(*             processTasks) and the Dispatch Router                       *)
(*             (NotificationHandlingsService, BmiService).                 *)
(*   SpecLink  the connection life cycle of RabbitMQService (connect,      *)
(*             handleDisconnect, reconnect timers, onModuleDestroy).       *)
(*   SpecConsumer  the connection life cycle together with the consumer    *)
(*             NotificationHandlingsService registers at start-up.         *)
(*   SpecGateway   the socket registry and the sends of InAppGateway.      *)
(*   SpecBmi       one BMI event through the router and BmiService.        *)
(*   SpecStore     the notification records behind                         *)
(*             InAppNotificationController and InAppNotificationService.   *)
(***************************************************************************)
EXTENDS Integers, Sequences, FiniteSets, Bags, TLC

\* ------------------------------------------------------------------ bounds
MaxMsgs == 2
MaxDeliveries == 2
MaxConns == 2
MaxSockets == 1
MaxNotifs == 2

\* ------------------------------------------------------- program constants
maxReconnectAttempts == 10
reconnectInterval == 5000

\* NOTIFICATION_TYPES (notification-handling.const.ts)
USER_NOTIFICATION == "user_notification"
SYSTEM_NOTIFICATION == "system_notification"
ADMIN_NOTIFICATION == "admin_notification"
MARKETING_NOTIFICATION == "marketing_notification"
PROMOTIONAL_NOTIFICATION == "promotional_notification"
SECURITY_NOTIFICATION == "security_notification"
TRANSACTIONAL_NOTIFICATION == "transactional_notification"
VENDOR_NOTIFICATION == "vendor_notification"

NOTIFICATION_TYPES ==
  { USER_NOTIFICATION, SYSTEM_NOTIFICATION, ADMIN_NOTIFICATION,
    MARKETING_NOTIFICATION, PROMOTIONAL_NOTIFICATION, SECURITY_NOTIFICATION,
    TRANSACTIONAL_NOTIFICATION, VENDOR_NOTIFICATION }

\* APP_USERS_NOTIFICATION_SETTINGS_EVENTS, as used by handleUserNotification
BMI_NOTIFICATION == "BMI_NOTIFICATION"
BMR_NOTIFICATION == "BMR_NOTIFICATION"
BODY_STATS_NOTIFICATION == "BODY_STATS_NOTIFICATION"
TDEE_NOTIFICATION == "TDEE_NOTIFICATION"

APP_USERS_NOTIFICATION_SETTINGS_EVENTS ==
  { BMI_NOTIFICATION, BMR_NOTIFICATION, BODY_STATS_NOTIFICATION,
    TDEE_NOTIFICATION }

\* a field that is absent (or falsy) in the decoded JSON
Undefined == "undefined"
\* a value that is present but belongs to no enumeration
UnknownType == "unknown_type"
UnknownEvent == "unknown_event"

VARIABLES
  \* ---- broker queues and consume callbacks (Spec)
  msgs,              \* message id -> record, see NoMsg
  nextMsg,           \* next message id to publish
  \* ---- connection life cycle (SpecLink)
  started,           \* onModuleInit has run
  isShuttingDown,    \* RabbitMQService.isShuttingDown
  reconnectAttempts, \* RabbitMQService.reconnectAttempts
  connection,        \* RabbitMQService.connection (0: undefined)
  channel,           \* RabbitMQService.channel (0: undefined)
  connState,         \* connection id -> "none" | "open" | "errored" | "closed"
  chanState,         \* channel id (= its connection's id) -> "none" | "open" | "closed"
  listeners,         \* connection id -> number of registered error/close handler pairs
  calls,             \* bag of connect() calls in flight
  timers,            \* number of pending reconnect timers (setTimeout not yet fired)
  delays,            \* delays of the timers scheduled since the last successful connect
  failures,          \* connect() calls that failed since the last successful connect
  shutdown,          \* position of onModuleDestroy / closeConnection
  closeLog,          \* close() calls made by closeConnection, in order
  last,              \* the step just taken by the link
  \* ---- the notification consumer (SpecConsumer)
  consumerInit,      \* NotificationHandlingsService.onModuleInit: "idle" | "done"
  consumers,         \* channel ids on which channel.consume registered the callback
  arrival,           \* a message published once the link is up again:
                     \* "none" | "queued" | "delivered"
  handling,          \* the callback of the delivered message: the channel it
                     \* was delivered on and the channel its ack went to
  \* ---- InAppGateway (SpecGateway)
  isServerInitialized, \* InAppGateway.isServerInitialized
  sockets,           \* socket id -> "none" | "connected" | "disconnected"
  userSocketMap,     \* InAppGateway.userSocketMap, entries in insertion order
  topicSubscriptions, \* InAppGateway.topicSubscriptions
  rooms,             \* socket id -> the Socket.IO rooms it has joined
  gwLast,            \* the gateway call just made and what it did
  \* ---- one BMI event through the router (SpecBmi)
  bmi,               \* the event handled last: collaborators' answers and outcome
  \* ---- the in-app notification records (SpecStore)
  store,             \* the documents of the collection, by _id
  storeLast          \* the controller call just made and its answer

consumeVars == <<msgs, nextMsg>>
linkVars == <<started, isShuttingDown, reconnectAttempts, connection, channel,
              connState, chanState, listeners, calls, timers, delays,
              failures, shutdown, closeLog, last>>
consumerVars == <<consumerInit, consumers, arrival, handling>>
gatewayVars == <<isServerInitialized, sockets, userSocketMap, topicSubscriptions,
                 rooms, gwLast>>
bmiVars == <<bmi>>
storeVars == <<store, storeLast>>
vars == <<msgs, nextMsg, started, isShuttingDown, reconnectAttempts, connection,
          channel, connState, chanState, listeners, calls, timers, delays,
          failures, shutdown, closeLog, last, consumerInit, consumers, arrival,
          handling,
          isServerInitialized, sockets, userSocketMap, topicSubscriptions,
          rooms, gwLast, bmi, store, storeLast>>

\* =================================================================== bodies
Queues == {"notification", "task"}

Malformed == [kind |-> "malformed", type |-> Undefined, event |-> Undefined,
              recipients |-> FALSE]
\* the JSON text `null`: decodes, but is no object
JsonNull == [kind |-> "null", type |-> Undefined, event |-> Undefined,
             recipients |-> FALSE]

\* decoded objects: type, data.event, and whether recipients[0] exists (only
\* the BMI case of handleUserNotification reads recipients[0])
Envelopes ==
  [kind : {"object"}, type : {USER_NOTIFICATION},
   event : APP_USERS_NOTIFICATION_SETTINGS_EVENTS \cup {UnknownEvent, Undefined},
   recipients : {TRUE}]
  \cup
  [kind : {"object"}, type : {USER_NOTIFICATION}, event : {BMI_NOTIFICATION},
   recipients : {FALSE}]
  \cup
  [kind : {"object"},
   type : (NOTIFICATION_TYPES \ {USER_NOTIFICATION}) \cup {UnknownType, Undefined},
   event : {Undefined}, recipients : {TRUE}]

Bodies == {Malformed, JsonNull} \cup Envelopes

\* the tasks of a work queue are opaque to the service: processTasks only
\* decodes them and hands them to the processor
TaskBodies ==
  {Malformed, JsonNull,
   [kind |-> "object", type |-> Undefined, event |-> Undefined, recipients |-> TRUE]}

BodiesOf(q) == IF q = "notification" THEN Bodies ELSE TaskBodies

\* faulty variant: the body is handed on without being decoded
JSONparse_lenient(body) == TRUE

\* JSON.parse(message.content.toString()) succeeds
JSONparse(body) == body.kind # "malformed"

\* ============================================================== BMI handler
\* what the collaborators of BmiService answer for one event. settings: the
\* result of findOne; timezone: the settings carry a time zone, without one
\* momentTz(...).tz(undefined) is undefined and .format() on it a TypeError;
\* sent: the result of sendUserBMIEmail; logOk: ServiceLogsService.create
\* resolves; inAppOk: InAppNotificationService.create resolves; ready: the
\* gateway's isServerReady()
BmiEnv ==
  [settings : {"none", "found", "error"},
   email_notification : BOOLEAN, in_app_notification : BOOLEAN,
   timezone : BOOLEAN, sent : BOOLEAN, logOk : BOOLEAN, inAppOk : BOOLEAN,
   ready : BOOLEAN]

NoSinks == [email |-> 0, logs |-> 0, inapp |-> 0]

\* the collaborators are consulted only on the route to the BMI handler
EnvFor(n) ==
  IF n.kind = "object" /\ n.type = USER_NOTIFICATION /\ n.event = BMI_NOTIFICATION
     /\ n.recipients
  THEN BmiEnv
  ELSE {[settings |-> "none", email_notification |-> FALSE,
         in_app_notification |-> FALSE, timezone |-> TRUE, sent |-> FALSE,
         logOk |-> TRUE, inAppOk |-> TRUE, ready |-> TRUE]}

NoBmi == [threw |-> FALSE, sinks |-> NoSinks, push |-> 0, pushed |-> FALSE]

\* faulty variant: without settings the defaults of the schema are used
handleBmiNotification_defaults(env) ==
  IF env.settings = "error" THEN [NoBmi EXCEPT !.threw = TRUE]
  ELSE [threw |-> ~env.logOk,
        sinks |-> [email |-> 1, logs |-> 1, inapp |-> 0], push |-> 0,
        pushed |-> FALSE]

\* BmiService.handleBmiNotification with
\* InAppNotificationService.sendInAppBMINotification. threw: an error leaves
\* the handler; sinks: the calls of sendUserBMIEmail (email), of
\* ServiceLogsService.create (logs) and of InAppNotificationService.create
\* (inapp); push: the calls of sendBMINotification, pushed: it was emitted
handleBmiNotification(env) ==
  IF env.settings = "error" THEN [NoBmi EXCEPT !.threw = TRUE]
  ELSE IF env.settings = "none" THEN NoBmi
  ELSE
    LET \* emailData.date is computed before the email is sent
        emailDate == env.email_notification /\ ~env.timezone
        e == IF env.email_notification /\ env.timezone THEN 1 ELSE 0
        \* one log record for the email, sent or not; its failure is thrown
        emailThrew == emailDate \/ (e = 1 /\ ~env.logOk)
        i == IF env.in_app_notification /\ ~emailThrew THEN 1 ELSE 0
        \* the date of the push is computed after the record was created
        p == IF i = 1 /\ env.inAppOk /\ env.timezone THEN 1 ELSE 0
        inAppThrew == i = 1 /\ p = 0
    IN [threw |-> emailThrew \/ inAppThrew,
        sinks |-> [email |-> e, logs |-> e, inapp |-> i],
        push |-> p, pushed |-> p = 1 /\ env.ready]

\* ========================================================== Dispatch Router
NoDispatch == [category |-> <<>>, event |-> <<>>, threw |-> FALSE, sinks |-> NoSinks]

\* NotificationHandlingsService.handleUserNotification
handleUserNotification(n, env) ==
  IF n.event = Undefined
  THEN [category |-> <<"handleUserNotification">>, event |-> <<>>,
        threw |-> FALSE, sinks |-> NoSinks]
  ELSE IF n.event = BMI_NOTIFICATION
  THEN IF ~n.recipients
       THEN \* notification.recipients[0].user_id: TypeError
            [category |-> <<"handleUserNotification">>, event |-> <<>>,
             threw |-> TRUE, sinks |-> NoSinks]
       ELSE LET r == handleBmiNotification(env)
            IN [category |-> <<"handleUserNotification">>,
                event |-> <<"handleBmiNotification">>,
                threw |-> r.threw, sinks |-> r.sinks]
  ELSE \* BMR, BODY_STATS, TDEE: the calls are commented out; default: warn
       [category |-> <<"handleUserNotification">>, event |-> <<>>,
        threw |-> FALSE, sinks |-> NoSinks]

\* the private handleXxxNotification method the switch selects
CategoryHandler(type) ==
  CASE type = SYSTEM_NOTIFICATION -> "handleSystemNotification"
    [] type = TRANSACTIONAL_NOTIFICATION -> "handleTransactionalNotification"
    [] type = ADMIN_NOTIFICATION -> "handleAdminNotification"
    [] type = MARKETING_NOTIFICATION -> "handleMarketingNotification"
    [] type = PROMOTIONAL_NOTIFICATION -> "handlePromotionalNotification"
    [] type = SECURITY_NOTIFICATION -> "handleSecurityNotification"
    [] type = VENDOR_NOTIFICATION -> "handleVendorNotification"

\* faulty variant: an unknown or missing type is rejected
handleNotification_reject(n, env) ==
  IF n.kind = "null" THEN [NoDispatch EXCEPT !.threw = TRUE]
  ELSE IF n.type = USER_NOTIFICATION THEN handleUserNotification(n, env)
  ELSE IF n.type \in NOTIFICATION_TYPES
  THEN [NoDispatch EXCEPT !.category = <<CategoryHandler(n.type)>>]
  ELSE [NoDispatch EXCEPT !.threw = TRUE]

\* NotificationHandlingsService.handleNotification: the errors it catches it
\* re-throws, so threw is what escapes to the consume callback
handleNotification(n, env) ==
  IF n.kind = "null"
  THEN \* notification.type on null: TypeError inside the try
       [NoDispatch EXCEPT !.threw = TRUE]
  ELSE IF n.type = Undefined THEN NoDispatch
  ELSE IF n.type = USER_NOTIFICATION THEN handleUserNotification(n, env)
  ELSE IF n.type \in NOTIFICATION_TYPES
  THEN [NoDispatch EXCEPT !.category = <<CategoryHandler(n.type)>>]
  ELSE NoDispatch

\* ======================================================== consume callbacks
ACK == "ack"
NACK_REQUEUE == "nack_requeue"
NACK_DROP == "nack_no_requeue"

\* faulty variant: the acknowledgment moved out of the try block
consumeMessageAcks_finally(decoded, threw) ==
  IF decoded /\ ~threw THEN <<ACK>> ELSE <<NACK_DROP, ACK>>

\* faulty variant: failures are requeued, as processTasks does
consumeMessageAcks_requeue(decoded, threw) ==
  IF decoded /\ ~threw THEN <<ACK>> ELSE <<NACK_REQUEUE>>

\* the channel calls of the consumeMessage callback for one message
consumeMessageAcks(decoded, threw) ==
  IF decoded /\ ~threw THEN <<ACK>> ELSE <<NACK_DROP>>

\* the channel calls of the processTasks callback for one message
processTasksAcks(decoded, threw) ==
  IF decoded /\ ~threw THEN <<ACK>> ELSE <<NACK_REQUEUE>>

\* what the broker does with a message after the channel calls `acks`; a
\* message nobody acknowledged stays unacknowledged on the consumer
Settle(acks) ==
  IF acks = <<>> THEN "unacked"
  ELSE IF acks[1] = ACK THEN "acked"
  ELSE IF acks[1] = NACK_REQUEUE THEN "queued"
  ELSE "dropped"

\* st: where the broker has the message ("none", "queued", "unacked", "acked",
\* "dropped"); del: deliveries so far; of the latest delivery: cb, the consume
\* callback ("none", "running", "returned"), acks, its channel calls, and
\* dispatch, what the router did
NoMsg == [st |-> "none", q |-> "notification", body |-> Malformed, del |-> 0,
          cb |-> "none", acks |-> <<>>, dispatch |-> NoDispatch]

MsgIds == 1..MaxMsgs

\* a producer puts a message on a queue
Publish(q, body) ==
  /\ nextMsg <= MaxMsgs
  /\ msgs' = [msgs EXCEPT ![nextMsg] = [NoMsg EXCEPT !.st = "queued", !.q = q,
                                                      !.body = body]]
  /\ nextMsg' = nextMsg + 1
  /\ UNCHANGED linkVars
  /\ UNCHANGED consumerVars /\ UNCHANGED gatewayVars /\ UNCHANGED bmiVars /\ UNCHANGED storeVars

\* prefetch(1): the consumer of queue q holds no unacknowledged message
Idle(q) == \A m \in MsgIds : ~(msgs[m].st = "unacked" /\ msgs[m].q = q)

\* faulty variant: the callback acks before it awaits handleNotification
DeliverNotification_ackFirst(m) ==
  /\ msgs[m].st = "queued" /\ msgs[m].q = "notification"
  /\ Idle("notification")
  /\ msgs[m].del < MaxDeliveries
  /\ LET decoded == JSONparse(msgs[m].body)
         acks == IF decoded THEN <<ACK>> ELSE consumeMessageAcks(FALSE, FALSE)
     IN msgs' = [msgs EXCEPT ![m] = [@ EXCEPT !.st = Settle(acks),
                                               !.del = @ + 1,
                                               !.cb = IF decoded THEN "running"
                                                      ELSE "returned",
                                               !.acks = <<>>,
                                               !.dispatch = NoDispatch]]
  /\ UNCHANGED <<nextMsg>> /\ UNCHANGED linkVars
  /\ UNCHANGED consumerVars /\ UNCHANGED gatewayVars /\ UNCHANGED bmiVars /\ UNCHANGED storeVars

\* the broker delivers m to the consumeMessage callback: JSON.parse, then
\* either the nack of the catch block or the call of handleNotification
DeliverNotification(m) ==
  /\ msgs[m].st = "queued" /\ msgs[m].q = "notification"
  /\ Idle("notification")
  /\ msgs[m].del < MaxDeliveries
  /\ LET decoded == JSONparse(msgs[m].body)
         acks == IF decoded THEN <<>> ELSE consumeMessageAcks(FALSE, FALSE)
     IN msgs' = [msgs EXCEPT ![m] = [@ EXCEPT !.st = Settle(acks),
                                               !.del = @ + 1,
                                               !.cb = IF decoded THEN "running"
                                                      ELSE "returned",
                                               !.acks = acks,
                                               !.dispatch = NoDispatch]]
  /\ UNCHANGED <<nextMsg>> /\ UNCHANGED linkVars
  /\ UNCHANGED consumerVars /\ UNCHANGED gatewayVars /\ UNCHANGED bmiVars /\ UNCHANGED storeVars

\* handleNotification settles and the callback acknowledges
FinishNotification(m) ==
  /\ msgs[m].cb = "running" /\ msgs[m].q = "notification"
  /\ \E env \in EnvFor(msgs[m].body) :
       LET d == handleNotification(msgs[m].body, env)
           acks == consumeMessageAcks(TRUE, d.threw)
       IN msgs' = [msgs EXCEPT ![m] = [@ EXCEPT !.st = Settle(acks),
                                                 !.cb = "returned",
                                                 !.acks = acks,
                                                 !.dispatch = d]]
  /\ UNCHANGED <<nextMsg>> /\ UNCHANGED linkVars
  /\ UNCHANGED consumerVars /\ UNCHANGED gatewayVars /\ UNCHANGED bmiVars /\ UNCHANGED storeVars

\* the broker delivers m to the processTasks callback
DeliverTask(m) ==
  /\ msgs[m].st = "queued" /\ msgs[m].q = "task"
  /\ Idle("task")
  /\ msgs[m].del < MaxDeliveries
  /\ LET decoded == JSONparse(msgs[m].body)
         acks == IF decoded THEN <<>> ELSE processTasksAcks(FALSE, FALSE)
     IN msgs' = [msgs EXCEPT ![m] = [@ EXCEPT !.st = Settle(acks),
                                               !.del = @ + 1,
                                               !.cb = IF decoded THEN "running"
                                                      ELSE "returned",
                                               !.acks = acks,
                                               !.dispatch = NoDispatch]]
  /\ UNCHANGED <<nextMsg>> /\ UNCHANGED linkVars
  /\ UNCHANGED consumerVars /\ UNCHANGED gatewayVars /\ UNCHANGED bmiVars /\ UNCHANGED storeVars

\* the processor given to processTasks settles (it may throw) and the callback
\* acknowledges
FinishTask(m) ==
  /\ msgs[m].cb = "running" /\ msgs[m].q = "task"
  /\ \E threw \in BOOLEAN :
       LET acks == processTasksAcks(TRUE, threw)
       IN msgs' = [msgs EXCEPT ![m] = [@ EXCEPT !.st = Settle(acks),
                                                 !.cb = "returned",
                                                 !.acks = acks,
                                                 !.dispatch.threw = threw]]
  /\ UNCHANGED <<nextMsg>> /\ UNCHANGED linkVars
  /\ UNCHANGED consumerVars /\ UNCHANGED gatewayVars /\ UNCHANGED bmiVars /\ UNCHANGED storeVars

\* ================================================== connection life cycle
ConnIds == 1..MaxConns

RECURSIVE Pow(_, _)
Pow(b, e) == IF e <= 0 THEN 1 ELSE b * Pow(b, e - 1)

\* delays are counted in units of 1 / 2^(maxReconnectAttempts - 1) ms, in which
\* every reconnectInterval * 1.5^(n - 1), n <= maxReconnectAttempts, is an integer
TimeoutUnit == Pow(2, maxReconnectAttempts - 1)

\* faulty variant: the delay grows linearly
timeout_linear(n) == reconnectInterval * n * TimeoutUnit

\* handleDisconnect: reconnectInterval * Math.pow(1.5, reconnectAttempts - 1)
timeout(n) == reconnectInterval * Pow(3, n - 1) * Pow(2, maxReconnectAttempts - n)

\* the fields handleDisconnect reads and writes
Backoff == [attempts |-> reconnectAttempts, timers |-> timers, delays |-> delays]

\* faulty variant: one attempt too many
handleDisconnect_le(s) ==
  IF isShuttingDown THEN s
  ELSE IF s.attempts <= maxReconnectAttempts
  THEN [attempts |-> s.attempts + 1, timers |-> s.timers + 1,
        delays |-> Append(s.delays, timeout(s.attempts + 1))]
  ELSE s

\* RabbitMQService.handleDisconnect, one call
handleDisconnect(s) ==
  IF isShuttingDown THEN s
  ELSE IF s.attempts < maxReconnectAttempts
  THEN [attempts |-> s.attempts + 1, timers |-> s.timers + 1,
        delays |-> Append(s.delays, timeout(s.attempts + 1))]
  ELSE s

\* an event of a connection calls every handler registered for it
RECURSIVE Handlers(_, _)
Handlers(s, k) == IF k = 0 THEN s ELSE Handlers(handleDisconnect(s), k - 1)

SetBackoff(s) ==
  /\ reconnectAttempts' = s.attempts
  /\ timers' = s.timers
  /\ delays' = s.delays

Call(stage, conn, init) == [stage |-> stage, conn |-> conn, init |-> init]
Add(call) == calls (+) SetToBag({call})
Replace(old, new) == (calls (-) SetToBag({old})) (+) SetToBag({new})
Remove(old) == calls (-) SetToBag({old})
InFlight == BagToSet(calls)

\* onModuleInit: await this.connect()
OnModuleInit ==
  /\ ~started
  /\ started' = TRUE
  /\ calls' = Add(Call("connect", 0, TRUE))
  /\ last' = "onModuleInit"
  /\ UNCHANGED <<isShuttingDown, reconnectAttempts, connection, channel, connState,
                 chanState, listeners, timers, delays, failures, shutdown, closeLog>>
  /\ UNCHANGED consumeVars /\ UNCHANGED consumerVars /\ UNCHANGED gatewayVars /\ UNCHANGED bmiVars /\ UNCHANGED storeVars

\* a reconnect timer fires: await this.connect()
TimerFires ==
  /\ timers > 0
  /\ timers' = timers - 1
  /\ calls' = Add(Call("connect", 0, FALSE))
  /\ last' = "timer"
  /\ UNCHANGED <<started, isShuttingDown, reconnectAttempts, connection, channel,
                 connState, chanState, listeners, delays, failures, shutdown, closeLog>>
  /\ UNCHANGED consumeVars /\ UNCHANGED consumerVars /\ UNCHANGED gatewayVars /\ UNCHANGED bmiVars /\ UNCHANGED storeVars

\* connect(): amqp.connect resolves; this.connection is assigned and
\* createChannel is called on it
AmqpConnectResolves(call) ==
  /\ call \in InFlight /\ call.stage = "connect"
  /\ \E c \in ConnIds :
       /\ connState[c] = "none"
       /\ \A d \in ConnIds : d < c => connState[d] # "none"
       /\ connState' = [connState EXCEPT ![c] = "open"]
       /\ connection' = c
       /\ calls' = Replace(call, Call("createChannel", c, call.init))
  /\ last' = "amqpConnected"
  /\ UNCHANGED <<started, isShuttingDown, reconnectAttempts, channel, chanState,
                 listeners, timers, delays, failures, shutdown, closeLog>>
  /\ UNCHANGED consumeVars /\ UNCHANGED consumerVars /\ UNCHANGED gatewayVars /\ UNCHANGED bmiVars /\ UNCHANGED storeVars

\* connect(): one of its awaits rejects; the catch block calls handleDisconnect
ConnectFails(call) ==
  /\ call \in InFlight
  /\ calls' = Remove(call)
  /\ SetBackoff(handleDisconnect(Backoff))
  /\ failures' = failures + 1
  /\ last' = "connectFailed"
  /\ UNCHANGED <<started, isShuttingDown, connection, channel, connState,
                 chanState, listeners, shutdown, closeLog>>
  /\ UNCHANGED consumeVars /\ UNCHANGED consumerVars /\ UNCHANGED gatewayVars /\ UNCHANGED bmiVars /\ UNCHANGED storeVars

\* faulty variant: the counter is reset as soon as the channel exists
CreateChannelResolves_reset(call) ==
  /\ call \in InFlight /\ call.stage = "createChannel"
  /\ connState[call.conn] = "open"
  /\ chanState' = [chanState EXCEPT ![call.conn] = "open"]
  /\ channel' = call.conn
  /\ calls' = Replace(call, Call("prefetch", call.conn, call.init))
  /\ reconnectAttempts' = 0
  /\ last' = "channelCreated"
  /\ UNCHANGED <<started, isShuttingDown, connection, connState,
                 listeners, timers, delays, failures, shutdown, closeLog>>
  /\ UNCHANGED consumeVars /\ UNCHANGED consumerVars /\ UNCHANGED gatewayVars /\ UNCHANGED bmiVars /\ UNCHANGED storeVars

\* connect(): createChannel resolves; this.channel is assigned and prefetch(1)
\* is called on it
CreateChannelResolves(call) ==
  /\ call \in InFlight /\ call.stage = "createChannel"
  /\ connState[call.conn] = "open"
  /\ chanState' = [chanState EXCEPT ![call.conn] = "open"]
  /\ channel' = call.conn
  /\ calls' = Replace(call, Call("prefetch", call.conn, call.init))
  /\ last' = "channelCreated"
  /\ UNCHANGED <<started, isShuttingDown, reconnectAttempts, connection, connState,
                 listeners, timers, delays, failures, shutdown, closeLog>>
  /\ UNCHANGED consumeVars /\ UNCHANGED consumerVars /\ UNCHANGED gatewayVars /\ UNCHANGED bmiVars /\ UNCHANGED storeVars

\* connect(): prefetch resolves; the counter is reset and the error and close
\* handlers are registered on this.connection
PrefetchResolves(call) ==
  /\ call \in InFlight /\ call.stage = "prefetch"
  /\ chanState[call.conn] = "open"
  /\ calls' = Remove(call)
  /\ reconnectAttempts' = 0
  /\ delays' = <<>>
  /\ failures' = 0
  /\ listeners' = [listeners EXCEPT ![connection] = @ + 1]
  /\ last' = "connected"
  /\ UNCHANGED <<started, isShuttingDown, connection, channel, connState,
                 chanState, timers, shutdown, closeLog>>
  /\ UNCHANGED consumeVars /\ UNCHANGED consumerVars /\ UNCHANGED gatewayVars /\ UNCHANGED bmiVars /\ UNCHANGED storeVars

\* connection c emits 'error': every registered handler calls handleDisconnect
ConnectionError(c) ==
  /\ connState[c] = "open" /\ listeners[c] > 0
  /\ connState' = [connState EXCEPT ![c] = "errored"]
  /\ chanState' = [chanState EXCEPT ![c] = IF @ = "open" THEN "closed" ELSE @]
  /\ SetBackoff(Handlers(Backoff, listeners[c]))
  /\ last' = "error"
  /\ UNCHANGED <<started, isShuttingDown, connection, channel, listeners, calls,
                 failures, shutdown, closeLog>>
  /\ UNCHANGED consumeVars /\ UNCHANGED consumerVars /\ UNCHANGED gatewayVars /\ UNCHANGED bmiVars /\ UNCHANGED storeVars

\* connection c emits 'close' (after an 'error', or alone): every registered
\* handler calls handleDisconnect unless the service is shutting down
ConnectionClose(c) ==
  /\ connState[c] \in {"open", "errored"}
  /\ connState' = [connState EXCEPT ![c] = "closed"]
  /\ chanState' = [chanState EXCEPT ![c] = IF @ = "open" THEN "closed" ELSE @]
  /\ SetBackoff(IF isShuttingDown THEN Backoff ELSE Handlers(Backoff, listeners[c]))
  /\ last' = "close"
  /\ UNCHANGED <<started, isShuttingDown, connection, channel, listeners, calls,
                 failures, shutdown, closeLog>>
  /\ UNCHANGED consumeVars /\ UNCHANGED consumerVars /\ UNCHANGED gatewayVars /\ UNCHANGED bmiVars /\ UNCHANGED storeVars

\* the connect() awaited by onModuleInit has returned
InitReturned == started /\ \A call \in InFlight : ~call.init

\* onModuleDestroy: the flag is set and closeConnection runs up to its first await
OnModuleDestroy ==
  /\ InitReturned /\ shutdown.pc = "idle"
  /\ isShuttingDown' = TRUE
  /\ IF channel # 0
     THEN /\ shutdown' = [pc |-> "channel.close", target |-> channel]
          /\ closeLog' = <<"channel">>
     ELSE IF connection # 0
     THEN /\ shutdown' = [pc |-> "connection.close", target |-> connection]
          /\ closeLog' = <<"connection">>
     ELSE /\ shutdown' = [pc |-> "done", target |-> 0]
          /\ closeLog' = <<>>
  /\ last' = "onModuleDestroy"
  /\ UNCHANGED <<started, reconnectAttempts, connection, channel, connState,
                 chanState, listeners, calls, timers, delays, failures>>
  /\ UNCHANGED consumeVars /\ UNCHANGED consumerVars /\ UNCHANGED gatewayVars /\ UNCHANGED bmiVars /\ UNCHANGED storeVars

\* closeConnection: channel.close() resolves; connection.close() is called
ChannelCloseResolves ==
  /\ shutdown.pc = "channel.close"
  /\ chanState[shutdown.target] = "open"
  /\ chanState' = [chanState EXCEPT ![shutdown.target] = "closed"]
  /\ shutdown' = [pc |-> "connection.close", target |-> connection]
  /\ closeLog' = Append(closeLog, "connection")
  /\ last' = "channelClosed"
  /\ UNCHANGED <<started, isShuttingDown, reconnectAttempts, connection, channel,
                 connState, listeners, calls, timers, delays, failures>>
  /\ UNCHANGED consumeVars /\ UNCHANGED consumerVars /\ UNCHANGED gatewayVars /\ UNCHANGED bmiVars /\ UNCHANGED storeVars

\* closeConnection: connection.close() resolves; the connection emits 'close',
\* which the handlers ignore while shutting down
ConnectionCloseResolves ==
  /\ shutdown.pc = "connection.close"
  /\ connState[shutdown.target] = "open"
  /\ connState' = [connState EXCEPT ![shutdown.target] = "closed"]
  /\ chanState' = [chanState EXCEPT ![shutdown.target] =
                     IF @ = "open" THEN "closed" ELSE @]
  /\ shutdown' = [pc |-> "done", target |-> 0]
  /\ last' = "connectionClosed"
  /\ UNCHANGED <<started, isShuttingDown, reconnectAttempts, connection, channel,
                 listeners, calls, timers, delays, failures, closeLog>>
  /\ UNCHANGED consumeVars /\ UNCHANGED consumerVars /\ UNCHANGED gatewayVars /\ UNCHANGED bmiVars /\ UNCHANGED storeVars

\* faulty variant: the error of close() leaves closeConnection
CloseRejects_rethrow ==
  /\ shutdown.pc \in {"channel.close", "connection.close"}
  /\ shutdown' = [pc |-> "threw", target |-> 0]
  /\ last' = "closeFailed"
  /\ UNCHANGED <<started, isShuttingDown, reconnectAttempts, connection, channel,
                 connState, chanState, listeners, calls, timers, delays, failures,
                 closeLog>>
  /\ UNCHANGED consumeVars /\ UNCHANGED consumerVars /\ UNCHANGED gatewayVars /\ UNCHANGED bmiVars /\ UNCHANGED storeVars

\* closeConnection: the pending close() rejects; the catch block logs it
CloseRejects ==
  /\ shutdown.pc \in {"channel.close", "connection.close"}
  /\ shutdown' = [pc |-> "done", target |-> 0]
  /\ last' = "closeFailed"
  /\ UNCHANGED <<started, isShuttingDown, reconnectAttempts, connection, channel,
                 connState, chanState, listeners, calls, timers, delays, failures,
                 closeLog>>
  /\ UNCHANGED consumeVars /\ UNCHANGED consumerVars /\ UNCHANGED gatewayVars /\ UNCHANGED bmiVars /\ UNCHANGED storeVars

CallRecords ==
  [stage : {"connect"}, conn : {0}, init : BOOLEAN]
  \cup [stage : {"createChannel", "prefetch"}, conn : ConnIds, init : BOOLEAN]

LinkNext ==
  \/ OnModuleInit
  \/ TimerFires
  \/ \E call \in CallRecords : AmqpConnectResolves(call)
  \/ \E call \in CallRecords : ConnectFails(call)
  \/ \E call \in CallRecords : CreateChannelResolves(call)
  \/ \E call \in CallRecords : PrefetchResolves(call)
  \/ \E c \in ConnIds : ConnectionError(c)
  \/ \E c \in ConnIds : ConnectionClose(c)
  \/ OnModuleDestroy
  \/ ChannelCloseResolves
  \/ ConnectionCloseResolves
  \/ CloseRejects

\* ================================================ the notification consumer
\* connect() ran to its end on the current connection, and the connection
\* and its channel are still open
LinkUp ==
  /\ connection # 0 /\ channel = connection
  /\ connState[connection] = "open" /\ chanState[channel] = "open"
  /\ listeners[connection] > 0

\* RabbitMQService.consumeMessage(queue, callback): it throws when there is no
\* channel, or when assertQueue is refused because the channel is closed;
\* otherwise channel.consume registers the callback on this.channel
consumeMessage(cs) ==
  IF channel = 0 \/ chanState[channel] # "open"
  THEN [threw |-> TRUE, consumers |-> cs]
  ELSE [threw |-> FALSE, consumers |-> cs \cup {channel}]

\* NotificationHandlingsService.onModuleInit, after the onModuleInit of the
\* imported RabbitMQService has returned: startConsumingNotifications calls
\* consumeMessage once and only logs what it throws
StartConsumingNotifications ==
  /\ consumerInit = "idle" /\ InitReturned
  /\ consumerInit' = "done"
  /\ consumers' = consumeMessage(consumers).consumers
  /\ last' = "startConsuming"
  /\ UNCHANGED <<started, isShuttingDown, reconnectAttempts, connection, channel,
                 connState, chanState, listeners, calls, timers, delays, failures,
                 shutdown, closeLog, arrival, handling>>
  /\ UNCHANGED consumeVars /\ UNCHANGED gatewayVars /\ UNCHANGED bmiVars /\ UNCHANGED storeVars

\* a producer publishes a notification while the link is up
NotificationArrives ==
  /\ arrival = "none" /\ LinkUp /\ consumerInit = "done"
  /\ arrival' = "queued"
  /\ last' = "published"
  /\ UNCHANGED <<started, isShuttingDown, reconnectAttempts, connection, channel,
                 connState, chanState, listeners, calls, timers, delays, failures,
                 shutdown, closeLog, consumerInit, consumers, handling>>
  /\ UNCHANGED consumeVars /\ UNCHANGED gatewayVars /\ UNCHANGED bmiVars /\ UNCHANGED storeVars

NoHandling == [pc |-> "none", on |-> 0, ackOn |-> 0]

\* the broker hands the queued notification to a consumer of the queue, on
\* the channel of that consumer; the callback awaits handleNotification
BrokerDelivers ==
  /\ arrival = "queued"
  /\ \E c \in consumers :
       /\ chanState[c] = "open"
       /\ handling' = [pc |-> "running", on |-> c, ackOn |-> 0]
  /\ arrival' = "delivered"
  /\ last' = "delivered"
  /\ UNCHANGED <<started, isShuttingDown, reconnectAttempts, connection, channel,
                 connState, chanState, listeners, calls, timers, delays, failures,
                 shutdown, closeLog, consumerInit, consumers>>
  /\ UNCHANGED consumeVars /\ UNCHANGED gatewayVars /\ UNCHANGED bmiVars /\ UNCHANGED storeVars

\* the handler has settled and the callback calls this.channel.ack(message)
\* or this.channel.nack(message, false, false): on the channel the service
\* refers to at that moment
AckDelivered ==
  /\ handling.pc = "running"
  /\ handling' = [handling EXCEPT !.pc = "done", !.ackOn = channel]
  /\ last' = "acknowledged"
  /\ UNCHANGED <<started, isShuttingDown, reconnectAttempts, connection, channel,
                 connState, chanState, listeners, calls, timers, delays, failures,
                 shutdown, closeLog, consumerInit, consumers, arrival>>
  /\ UNCHANGED consumeVars /\ UNCHANGED gatewayVars /\ UNCHANGED bmiVars /\ UNCHANGED storeVars

ConsumerNext ==
  \/ LinkNext
  \/ StartConsumingNotifications
  \/ NotificationArrives
  \/ BrokerDelivers
  \/ AckDelivered

ConsumerInit ==
  /\ consumerInit = "idle"
  /\ consumers = {}
  /\ arrival = "none"
  /\ handling = NoHandling

LinkInit ==
  /\ started = FALSE
  /\ isShuttingDown = FALSE
  /\ reconnectAttempts = 0
  /\ connection = 0
  /\ channel = 0
  /\ connState = [c \in ConnIds |-> "none"]
  /\ chanState = [c \in ConnIds |-> "none"]
  /\ listeners = [c \in ConnIds |-> 0]
  /\ calls = EmptyBag
  /\ timers = 0
  /\ delays = <<>>
  /\ failures = 0
  /\ shutdown = [pc |-> "idle", target |-> 0]
  /\ closeLog = <<>>
  /\ last = "init"

ConsumeInit ==
  /\ msgs = [m \in MsgIds |-> NoMsg]
  /\ nextMsg = 1

\* ============================================================ InAppGateway
SocketIds == 1..MaxSockets
UserIds == {"u1", "u2"}

\* NotificationTopic
BMI == "bmi_notification"
BMR == "bmr_notification"
Topics == {BMI, BMR}
\* the topic argument of subscribeTopic / unsubscribeTopic, as an array
TopicLists == {<<t>> : t \in Topics} \cup {<<BMI, BMR>>}

\* Socket.IO rooms: userId, and `topic:${topicName}`
UserRoom(userId) == <<"user", userId>>
TopicRoom(topicName) == <<"topic", topicName>>

\* Array.prototype.indexOf, 1-based; 0 stands for -1
IndexOf(arr, x) ==
  IF \E i \in DOMAIN arr : arr[i] = x
  THEN CHOOSE i \in DOMAIN arr : arr[i] = x /\ \A j \in 1..(i - 1) : arr[j] # x
  ELSE 0
\* Array.prototype.splice(index, 1)
Splice(arr, i) == SubSeq(arr, 1, i - 1) \o SubSeq(arr, i + 1, Len(arr))

\* Map<string, string[]> as the sequence of its entries in insertion order
MapKeys(m) == {m[i].key : i \in DOMAIN m}
MapHas(m, k) == k \in MapKeys(m)
MapIndex(m, k) == CHOOSE i \in DOMAIN m : m[i].key = k
MapGet(m, k) == m[MapIndex(m, k)].val
MapSet(m, k, v) ==
  IF MapHas(m, k) THEN [m EXCEPT ![MapIndex(m, k)].val = v]
  ELSE Append(m, [key |-> k, val |-> v])
MapDelete(m, k) == IF MapHas(m, k) THEN Splice(m, MapIndex(m, k)) ELSE m

\* faulty variant: the socket id is pushed without the includes() test
registerUser_push(m, userId, id) ==
  LET existingSocketIds == IF MapHas(m, userId) THEN MapGet(m, userId) ELSE <<>>
  IN MapSet(m, userId, Append(existingSocketIds, id))

\* handleRegisterUser on userSocketMap
registerUser(m, userId, id) ==
  LET existingSocketIds == IF MapHas(m, userId) THEN MapGet(m, userId) ELSE <<>>
  IN IF IndexOf(existingSocketIds, id) # 0 THEN m
     ELSE MapSet(m, userId, Append(existingSocketIds, id))

\* faulty variant: the emptied list is written back instead of being deleted
unregisterUser_keep(m, userId, id) ==
  LET existingSocketIds == IF MapHas(m, userId) THEN MapGet(m, userId) ELSE <<>>
      index == IndexOf(existingSocketIds, id)
  IN IF index # 0 THEN MapSet(m, userId, Splice(existingSocketIds, index)) ELSE m

\* handleUnregisterUser on userSocketMap
unregisterUser(m, userId, id) ==
  LET existingSocketIds == IF MapHas(m, userId) THEN MapGet(m, userId) ELSE <<>>
      index == IndexOf(existingSocketIds, id)
  IN IF index # 0
     THEN IF Splice(existingSocketIds, index) = <<>>
          THEN MapDelete(m, userId)
          ELSE MapSet(m, userId, Splice(existingSocketIds, index))
     ELSE m

\* removeSocketFromUser: the loop over the entries stops (break) at the first
\* user whose list holds the socket
removeSocketFromUser(m, socketId) ==
  LET hits == {i \in DOMAIN m : IndexOf(m[i].val, socketId) # 0}
  IN IF hits = {} THEN m
     ELSE LET i == CHOOSE h \in hits : \A g \in hits : h <= g
              socketIds == Splice(m[i].val, IndexOf(m[i].val, socketId))
          IN IF socketIds = <<>> THEN MapDelete(m, m[i].key)
             ELSE MapSet(m, m[i].key, socketIds)

\* Map<string, Set<string>> as a function on its keys
\* handleSubscribeTopic on topicSubscriptions, one topicName of the forEach
subscribe(t, topicName, id) ==
  LET subscribers == IF topicName \in DOMAIN t THEN t[topicName] ELSE {}
  IN [k \in DOMAIN t \cup {topicName} |->
        IF k = topicName THEN subscribers \cup {id} ELSE t[k]]

\* faulty variant: the emptied set stays in the map
unsubscribe_keep(t, topicName, id) ==
  IF topicName \notin DOMAIN t THEN t
  ELSE [t EXCEPT ![topicName] = @ \ {id}]

\* handleUnsubscribeTopic on topicSubscriptions, one topicName of the forEach
unsubscribe(t, topicName, id) ==
  IF topicName \notin DOMAIN t THEN t
  ELSE IF t[topicName] \ {id} = {}
  THEN [k \in DOMAIN t \ {topicName} |-> t[k]]
  ELSE [t EXCEPT ![topicName] = @ \ {id}]

RECURSIVE subscribeTopic(_, _, _)
subscribeTopic(t, topics, id) ==
  IF topics = <<>> THEN t
  ELSE subscribeTopic(subscribe(t, Head(topics), id), Tail(topics), id)

RECURSIVE unsubscribeTopic(_, _, _)
unsubscribeTopic(t, topics, id) ==
  IF topics = <<>> THEN t
  ELSE unsubscribeTopic(unsubscribe(t, Head(topics), id), Tail(topics), id)

\* removeSocketFromTopics: every topic is visited
removeSocketFromTopics(t, socketId) ==
  [k \in {j \in DOMAIN t : t[j] \ {socketId} # {}} |-> t[k] \ {socketId}]

TopicRooms(topics) == {TopicRoom(topics[i]) : i \in DOMAIN topics}

\* isServerReady: afterInit sets the flag on the server Nest has injected
isServerReady == isServerInitialized

\* the sockets Socket.IO reaches through server.to(room)
InRoom(room) == {s \in SocketIds : sockets[s] = "connected" /\ room \in rooms[s]}
\* the sockets Socket.IO reaches through server.emit
InNamespace == {s \in SocketIds : sockets[s] = "connected"}

\* socketId occurs in a list of userSocketMap / in a set of topicSubscriptions
InUserMap(m, socketId) == \E i \in DOMAIN m : IndexOf(m[i].val, socketId) # 0
InTopicMap(t, socketId) == \E k \in DOMAIN t : socketId \in t[k]

\* socketId is in the list of userId / in the set of every (some) topic listed
Registered(m, userId, socketId) ==
  MapHas(m, userId) /\ IndexOf(MapGet(m, userId), socketId) # 0
SubscribedAll(t, topics, socketId) ==
  \A i \in DOMAIN topics : topics[i] \in DOMAIN t /\ socketId \in t[topics[i]]
SubscribedSome(t, topics, socketId) ==
  \E i \in DOMAIN topics : topics[i] \in DOMAIN t /\ socketId \in t[topics[i]]

\* what is kept of the gateway call just made. op: the call; returned: its
\* result; noop: an add that found its pair present, or a remove that found it
\* absent; same: the call left both mappings as they were; fresh: a
\* registerUser that found neither the user nor the socket in the mappings, or
\* the unregisterUser / disconnect that undoes such a call right after it, with
\* user and socket the pair; for a send, user or topic is its target, event
\* what it emitted and to the sockets that received it
NoCall == [op |-> "init", user |-> "-", topic |-> "-", socket |-> 0,
           returned |-> "-", event |-> "-", to |-> {}, noop |-> FALSE,
           same |-> TRUE, fresh |-> FALSE]

afterInit ==
  /\ ~isServerInitialized
  /\ isServerInitialized' = TRUE
  /\ gwLast' = [NoCall EXCEPT !.op = "afterInit"]
  /\ UNCHANGED <<sockets, userSocketMap, topicSubscriptions, rooms>>
  /\ UNCHANGED consumeVars /\ UNCHANGED linkVars /\ UNCHANGED consumerVars
  /\ UNCHANGED bmiVars /\ UNCHANGED storeVars

\* a client connects to the namespace of the running server
handleConnection(client) ==
  /\ isServerInitialized
  /\ sockets[client] = "none"
  /\ \A c \in SocketIds : c < client => sockets[c] # "none"
  /\ sockets' = [sockets EXCEPT ![client] = "connected"]
  /\ gwLast' = [NoCall EXCEPT !.op = "connect"]
  /\ UNCHANGED <<isServerInitialized, userSocketMap, topicSubscriptions, rooms>>
  /\ UNCHANGED consumeVars /\ UNCHANGED linkVars /\ UNCHANGED consumerVars
  /\ UNCHANGED bmiVars /\ UNCHANGED storeVars

\* the socket has left its rooms when Nest calls handleDisconnect
GatewayHandleDisconnect(client) ==
  /\ sockets[client] = "connected"
  /\ sockets' = [sockets EXCEPT ![client] = "disconnected"]
  /\ rooms' = [rooms EXCEPT ![client] = {}]
  /\ userSocketMap' = removeSocketFromUser(userSocketMap, client)
  /\ topicSubscriptions' = removeSocketFromTopics(topicSubscriptions, client)
  /\ LET undo == gwLast.op = "registerUser" /\ gwLast.fresh /\ gwLast.socket = client
     IN gwLast' = [NoCall EXCEPT !.op = "disconnect", !.same = /\ removeSocketFromUser(userSocketMap, client) = userSocketMap
                                          /\ removeSocketFromTopics(topicSubscriptions, client) = topicSubscriptions,
                                 !.user = IF undo THEN gwLast.user ELSE "-",
                                 !.socket = IF undo THEN client ELSE 0,
                                 !.fresh = undo]
  /\ UNCHANGED <<isServerInitialized>>
  /\ UNCHANGED consumeVars /\ UNCHANGED linkVars /\ UNCHANGED consumerVars
  /\ UNCHANGED bmiVars /\ UNCHANGED storeVars

handleRegisterUser(userId, client) ==
  /\ sockets[client] = "connected"
  /\ userSocketMap' = registerUser(userSocketMap, userId, client)
  /\ rooms' = [rooms EXCEPT ![client] = @ \cup {UserRoom(userId)}]
  /\ LET fresh == /\ ~MapHas(userSocketMap, userId)
                  /\ ~InUserMap(userSocketMap, client)
                  /\ ~InTopicMap(topicSubscriptions, client)
     IN gwLast' = [NoCall EXCEPT !.op = "registerUser", !.returned = "success",
                                 !.noop = Registered(userSocketMap, userId, client),
                                 !.same = registerUser(userSocketMap, userId, client) = userSocketMap,
                                 !.user = IF fresh THEN userId ELSE "-",
                                 !.socket = IF fresh THEN client ELSE 0,
                                 !.fresh = fresh]
  /\ UNCHANGED <<isServerInitialized, sockets, topicSubscriptions>>
  /\ UNCHANGED consumeVars /\ UNCHANGED linkVars /\ UNCHANGED consumerVars
  /\ UNCHANGED bmiVars /\ UNCHANGED storeVars

handleUnregisterUser(userId, client) ==
  /\ sockets[client] = "connected"
  /\ userSocketMap' = unregisterUser(userSocketMap, userId, client)
  /\ rooms' = [rooms EXCEPT ![client] = @ \ {UserRoom(userId)}]
  /\ LET undo == /\ gwLast.op = "registerUser" /\ gwLast.fresh
                 /\ gwLast.socket = client /\ gwLast.user = userId
     IN gwLast' = [NoCall EXCEPT !.op = "unregisterUser", !.returned = "success",
                                 !.noop = ~Registered(userSocketMap, userId, client),
                                 !.same = unregisterUser(userSocketMap, userId, client) = userSocketMap,
                                 !.user = IF undo THEN userId ELSE "-",
                                 !.socket = IF undo THEN client ELSE 0,
                                 !.fresh = undo]
  /\ UNCHANGED <<isServerInitialized, sockets, topicSubscriptions>>
  /\ UNCHANGED consumeVars /\ UNCHANGED linkVars /\ UNCHANGED consumerVars
  /\ UNCHANGED bmiVars /\ UNCHANGED storeVars

handleSubscribeTopic(topics, client) ==
  /\ sockets[client] = "connected"
  /\ topicSubscriptions' = subscribeTopic(topicSubscriptions, topics, client)
  /\ rooms' = [rooms EXCEPT ![client] = @ \cup TopicRooms(topics)]
  /\ gwLast' = [NoCall EXCEPT !.op = "subscribeTopic", !.returned = "success",
                              !.noop = SubscribedAll(topicSubscriptions, topics, client),
                              !.same = subscribeTopic(topicSubscriptions, topics, client) = topicSubscriptions]
  /\ UNCHANGED <<isServerInitialized, sockets, userSocketMap>>
  /\ UNCHANGED consumeVars /\ UNCHANGED linkVars /\ UNCHANGED consumerVars
  /\ UNCHANGED bmiVars /\ UNCHANGED storeVars

handleUnsubscribeTopic(topics, client) ==
  /\ sockets[client] = "connected"
  /\ topicSubscriptions' = unsubscribeTopic(topicSubscriptions, topics, client)
  /\ rooms' = [rooms EXCEPT ![client] = @ \ TopicRooms(topics)]
  /\ gwLast' = [NoCall EXCEPT !.op = "unsubscribeTopic", !.returned = "success",
                              !.noop = ~SubscribedSome(topicSubscriptions, topics, client),
                              !.same = unsubscribeTopic(topicSubscriptions, topics, client) = topicSubscriptions]
  /\ UNCHANGED <<isServerInitialized, sockets, userSocketMap>>
  /\ UNCHANGED consumeVars /\ UNCHANGED linkVars /\ UNCHANGED consumerVars
  /\ UNCHANGED bmiVars /\ UNCHANGED storeVars

\* faulty variant: the readiness test is missing
sendNotificationToUser_unguarded(userId) ==
  /\ gwLast' = [NoCall EXCEPT !.op = "sendNotificationToUser", !.user = userId,
                              !.returned = "true", !.event = "newNotification",
                              !.to = InRoom(UserRoom(userId))]
  /\ UNCHANGED <<isServerInitialized, sockets, userSocketMap, topicSubscriptions,
                 rooms>>
  /\ UNCHANGED consumeVars /\ UNCHANGED linkVars /\ UNCHANGED consumerVars
  /\ UNCHANGED bmiVars /\ UNCHANGED storeVars

\* this.server.to(userId).emit('newNotification', notification)
sendNotificationToUser(userId) ==
  /\ gwLast' = IF ~isServerReady
               THEN [NoCall EXCEPT !.op = "sendNotificationToUser",
                                   !.user = userId, !.returned = "false"]
               ELSE [NoCall EXCEPT !.op = "sendNotificationToUser",
                                   !.user = userId, !.returned = "true",
                                   !.event = "newNotification",
                                   !.to = InRoom(UserRoom(userId))]
  /\ UNCHANGED <<isServerInitialized, sockets, userSocketMap, topicSubscriptions,
                 rooms>>
  /\ UNCHANGED consumeVars /\ UNCHANGED linkVars /\ UNCHANGED consumerVars
  /\ UNCHANGED bmiVars /\ UNCHANGED storeVars

\* this.server.emit('topicNotification', { topic, notification })
sendNotificationToTopic(topic) ==
  /\ gwLast' = IF ~isServerReady
               THEN [NoCall EXCEPT !.op = "sendNotificationToTopic",
                                   !.topic = topic, !.returned = "false"]
               ELSE [NoCall EXCEPT !.op = "sendNotificationToTopic",
                                   !.topic = topic, !.returned = "true",
                                   !.event = "topicNotification",
                                   !.to = InNamespace]
  /\ UNCHANGED <<isServerInitialized, sockets, userSocketMap, topicSubscriptions,
                 rooms>>
  /\ UNCHANGED consumeVars /\ UNCHANGED linkVars /\ UNCHANGED consumerVars
  /\ UNCHANGED bmiVars /\ UNCHANGED storeVars

GatewayNext ==
  \/ afterInit
  \/ \E client \in SocketIds : handleConnection(client)
  \/ \E client \in SocketIds : GatewayHandleDisconnect(client)
  \/ \E userId \in UserIds, client \in SocketIds : handleRegisterUser(userId, client)
  \/ \E userId \in UserIds, client \in SocketIds : handleUnregisterUser(userId, client)
  \/ \E topics \in TopicLists, client \in SocketIds : handleSubscribeTopic(topics, client)
  \/ \E topics \in TopicLists, client \in SocketIds : handleUnsubscribeTopic(topics, client)
  \/ \E userId \in UserIds : sendNotificationToUser(userId)
  \/ \E topic \in Topics : sendNotificationToTopic(topic)

\* ================================================= one BMI event, end to end
\* a user notification of the BMI event with a recipient
BmiBody == [kind |-> "object", type |-> USER_NOTIFICATION,
            event |-> BMI_NOTIFICATION, recipients |-> TRUE]

NoEvent == [pc |-> "idle", env |-> CHOOSE env \in EnvFor(Malformed) : TRUE,
            out |-> NoBmi, threw |-> FALSE, acks |-> <<>>]

\* the consumeMessage callback for one BMI notification: handleNotification,
\* handleUserNotification, handleBmiNotification, then ack or nack
BmiEvent(env) ==
  /\ LET d == handleNotification(BmiBody, env)
     IN bmi' = [pc |-> "done", env |-> env, out |-> handleBmiNotification(env),
                threw |-> d.threw,
                acks |-> consumeMessageAcks(JSONparse(BmiBody), d.threw)]
  /\ UNCHANGED consumeVars /\ UNCHANGED linkVars /\ UNCHANGED consumerVars
  /\ UNCHANGED gatewayVars /\ UNCHANGED storeVars

BmiNext == \E env \in BmiEnv : BmiEvent(env)

BmiInit == bmi = NoEvent

\* ============================================ the in-app notification records
NotifIds == 1..MaxNotifs

\* a document of InAppNotificationSchema: is_read and is_deleted default to
\* false; exists: the _id is in the collection
NoRecord == [exists |-> FALSE, user_id |-> "-", is_read |-> FALSE,
             is_deleted |-> FALSE]

Documents(st) == {n \in NotifIds : st[n].exists}

\* the is_read of a query string: absent, or a boolean
IsReadFilters == {Undefined, "true", "false"}

\* InAppNotificationService.create
create(st, id, user_id) ==
  [st EXCEPT ![id] = [NoRecord EXCEPT !.exists = TRUE, !.user_id = user_id]]

\* InAppNotificationService.paginate: the query is built from user_id,
\* is_read and type only; the documents of the first page (every document
\* within the bound)
paginate(st, filters) ==
  {n \in Documents(st) :
     /\ st[n].user_id = filters.user_id
     /\ filters.is_read # Undefined => st[n].is_read = (filters.is_read = "true")}

\* InAppNotificationService.countUnreadForUser
countUnreadForUser(st, user_id) ==
  Cardinality({n \in Documents(st) :
                 st[n].user_id = user_id /\ ~st[n].is_read /\ ~st[n].is_deleted})

\* InAppNotificationService.findOne({user_id, _id, is_deleted}); 0 is null
findOne(st, filters) ==
  IF /\ filters._id \in Documents(st)
     /\ st[filters._id].user_id = filters.user_id
     /\ st[filters._id].is_deleted = filters.is_deleted
  THEN filters._id ELSE 0

\* InAppNotificationService.markAsRead: updateOne({_id, is_read: false,
\* is_deleted: false}, {$set: {is_read: true}})
markAsRead(st, _id) ==
  IF _id \in Documents(st) /\ ~st[_id].is_read /\ ~st[_id].is_deleted
  THEN [st EXCEPT ![_id].is_read = TRUE] ELSE st

\* InAppNotificationService.markAllUserNotificationsAsRead
markAllUserNotificationsAsRead(st, user_id) ==
  [n \in NotifIds |->
     IF st[n].exists /\ st[n].user_id = user_id /\ ~st[n].is_read
        /\ ~st[n].is_deleted
     THEN [st[n] EXCEPT !.is_read = TRUE] ELSE st[n]]

\* InAppNotificationService.softDelete: updateOne({_id}, {$set: {is_deleted: true}})
softDelete(st, id) ==
  IF id \in Documents(st) THEN [st EXCEPT ![id].is_deleted = TRUE] ELSE st

\* op: the controller method; data: the documents of the answer; count: the
\* number answered; status: "ok" or "not_found"; wasDeleted: the document
\* named by the call was soft-deleted when the call was made
NoRequest == [op |-> "none", user_id |-> "-", id |-> 0, data |-> {},
              count |-> 0, status |-> "ok", wasDeleted |-> FALSE]

\* sendInAppBMINotification stores a record for the recipient
CreateNotification(user_id) ==
  /\ \E id \in NotifIds :
       /\ ~store[id].exists
       /\ \A n \in NotifIds : n < id => store[n].exists
       /\ store' = create(store, id, user_id)
       /\ storeLast' = [NoRequest EXCEPT !.op = "create", !.user_id = user_id,
                                          !.id = id]
  /\ UNCHANGED consumeVars /\ UNCHANGED linkVars /\ UNCHANGED consumerVars
  /\ UNCHANGED gatewayVars /\ UNCHANGED bmiVars

\* GET users/:user_id
getUserNotifications(user_id, is_read) ==
  /\ storeLast' = [NoRequest EXCEPT
                     !.op = "getUserNotifications", !.user_id = user_id,
                     !.data = paginate(store, [user_id |-> user_id,
                                               is_read |-> is_read,
                                               is_deleted |-> FALSE])]
  /\ UNCHANGED store
  /\ UNCHANGED consumeVars /\ UNCHANGED linkVars /\ UNCHANGED consumerVars
  /\ UNCHANGED gatewayVars /\ UNCHANGED bmiVars

\* GET users/:user_id/count-unreads
countUserUnreadNotifications(user_id) ==
  /\ storeLast' = [NoRequest EXCEPT
                     !.op = "countUserUnreadNotifications", !.user_id = user_id,
                     !.count = countUnreadForUser(store, user_id)]
  /\ UNCHANGED store
  /\ UNCHANGED consumeVars /\ UNCHANGED linkVars /\ UNCHANGED consumerVars
  /\ UNCHANGED gatewayVars /\ UNCHANGED bmiVars

\* PUT users/:user_id/mark-as-reads/:_id
ControllerMarkAsRead(user_id, _id) ==
  /\ LET notification == findOne(store, [user_id |-> user_id, _id |-> _id,
                                         is_deleted |-> FALSE])
     IN /\ store' = IF notification = 0 THEN store ELSE markAsRead(store, _id)
        /\ storeLast' = [NoRequest EXCEPT
                           !.op = "markAsRead", !.user_id = user_id, !.id = _id,
                           !.status = IF notification = 0 THEN "not_found"
                                      ELSE "ok",
                           !.wasDeleted = store[_id].is_deleted]
  /\ UNCHANGED consumeVars /\ UNCHANGED linkVars /\ UNCHANGED consumerVars
  /\ UNCHANGED gatewayVars /\ UNCHANGED bmiVars

\* PUT users/:user_id/mark-all-as-reads
ControllerMarkAllAsRead(user_id) ==
  /\ store' = markAllUserNotificationsAsRead(store, user_id)
  /\ storeLast' = [NoRequest EXCEPT !.op = "markAllUserNotificationsAsRead",
                                     !.user_id = user_id]
  /\ UNCHANGED consumeVars /\ UNCHANGED linkVars /\ UNCHANGED consumerVars
  /\ UNCHANGED gatewayVars /\ UNCHANGED bmiVars

\* DELETE users/:user_id/:_id
ControllerSoftDelete(user_id, _id) ==
  /\ LET notification == findOne(store, [user_id |-> user_id, _id |-> _id,
                                         is_deleted |-> FALSE])
     IN /\ store' = IF notification = 0 THEN store ELSE softDelete(store, _id)
        /\ storeLast' = [NoRequest EXCEPT
                           !.op = "softDelete", !.user_id = user_id, !.id = _id,
                           !.status = IF notification = 0 THEN "not_found"
                                      ELSE "ok",
                           !.wasDeleted = store[_id].is_deleted]
  /\ UNCHANGED consumeVars /\ UNCHANGED linkVars /\ UNCHANGED consumerVars
  /\ UNCHANGED gatewayVars /\ UNCHANGED bmiVars

StoreNext ==
  \/ \E user_id \in UserIds : CreateNotification(user_id)
  \/ \E user_id \in UserIds : \E is_read \in IsReadFilters :
       getUserNotifications(user_id, is_read)
  \/ \E user_id \in UserIds : countUserUnreadNotifications(user_id)
  \/ \E user_id \in UserIds : \E _id \in NotifIds :
       ControllerMarkAsRead(user_id, _id)
  \/ \E user_id \in UserIds : ControllerMarkAllAsRead(user_id)
  \/ \E user_id \in UserIds : \E _id \in NotifIds :
       ControllerSoftDelete(user_id, _id)

StoreInit ==
  /\ store = [n \in NotifIds |-> NoRecord]
  /\ storeLast = NoRequest

GatewayInit ==
  /\ isServerInitialized = FALSE
  /\ sockets = [s \in SocketIds |-> "none"]
  /\ userSocketMap = <<>>
  /\ topicSubscriptions = <<>>
  /\ rooms = [s \in SocketIds |-> {}]
  /\ gwLast = NoCall

Init ==
  ConsumeInit /\ LinkInit /\ ConsumerInit /\ GatewayInit /\ BmiInit /\ StoreInit

Next ==
  \/ \E q \in Queues : \E body \in BodiesOf(q) : Publish(q, body)
  \/ \E m \in MsgIds : DeliverNotification(m)
  \/ \E m \in MsgIds : FinishNotification(m)
  \/ \E m \in MsgIds : DeliverTask(m)
  \/ \E m \in MsgIds : FinishTask(m)

Spec == Init /\ [][Next]_vars

SpecLink == Init /\ [][LinkNext]_vars

SpecGateway == Init /\ [][GatewayNext]_vars

SpecBmi == Init /\ [][BmiNext]_vars

SpecStore == Init /\ [][StoreNext]_vars

\* Nest runs every onModuleInit hook, and the broker delivers a queued message
\* to a consumer that stays registered
SpecConsumer ==
  /\ Init /\ [][ConsumerNext]_vars
  /\ WF_vars(StartConsumingNotifications)
  /\ WF_vars(BrokerDelivers)

\* ================================================================== claims
Outcomes == {ACK, NACK_REQUEUE, NACK_DROP}

\* the latest delivery of m went to the consume callback and the callback returned
Returned(m) == msgs[m].cb = "returned"
OnNotificationQueue(m) == msgs[m].st # "none" /\ msgs[m].q = "notification"

\* C1: every execution of a consume callback (consumeMessage or processTasks)
\* issues exactly one acknowledgment outcome for its message: none while the
\* handler is still running, exactly one of ack / nack+requeue /
\* nack+no-requeue once the callback has returned, never two.
C1_ExactlyOneAck ==
  \A m \in MsgIds :
    /\ msgs[m].cb = "running" => msgs[m].acks = <<>>
    /\ Returned(m) => Len(msgs[m].acks) = 1 /\ msgs[m].acks[1] \in Outcomes
    /\ msgs[m].st = "unacked" => msgs[m].cb = "running"

\* reached: both callbacks have returned, one after a handler failure and one
\* after a decode failure
C1_Witness ==
  \E m1, m2 \in MsgIds :
    /\ msgs[m1].q = "notification" /\ Returned(m1) /\ msgs[m1].dispatch.threw
    /\ msgs[m2].q = "task" /\ Returned(m2) /\ msgs[m2].body = Malformed

\* the handling of a decoded notification threw
HandlerThrew(m) ==
  OnNotificationQueue(m) /\ Returned(m) /\ msgs[m].body # Malformed
  /\ msgs[m].dispatch.threw

C3_MalformedDropped ==
  \A m \in MsgIds :
    (OnNotificationQueue(m) /\ msgs[m].del > 0 /\ msgs[m].body = Malformed) =>
      /\ msgs[m].acks = <<NACK_DROP>>
      /\ msgs[m].st = "dropped"
      /\ msgs[m].cb = "returned"
      /\ msgs[m].dispatch.category = <<>>
      /\ msgs[m].dispatch.event = <<>>

C3_Witness ==
  \E m \in MsgIds :
    OnNotificationQueue(m) /\ msgs[m].del > 0 /\ msgs[m].body = Malformed

\* the notification is an object whose category or (for a user notification)
\* event is missing or unknown
Unclassified(n) ==
  /\ n.kind = "object"
  /\ \/ n.type \notin NOTIFICATION_TYPES
     \/ n.type = USER_NOTIFICATION
        /\ n.event \notin APP_USERS_NOTIFICATION_SETTINGS_EVENTS

\* the handlers that deliver: the event handlers of the user category and the
\* category handlers of the other categories
DeliveryHandlers(m) ==
  IF msgs[m].body.type = USER_NOTIFICATION
  THEN msgs[m].dispatch.event
  ELSE msgs[m].dispatch.category

\* C4: a decoded notification with a missing or unknown category, or a user
\* notification with a missing or unknown event, runs no delivery handler and
\* no sink, throws nothing, and is acknowledged with ack.
C4_UnclassifiedAcked ==
  \A m \in MsgIds :
    (OnNotificationQueue(m) /\ Returned(m) /\ Unclassified(msgs[m].body)) =>
      /\ DeliveryHandlers(m) = <<>>
      /\ msgs[m].dispatch.sinks = NoSinks
      /\ ~msgs[m].dispatch.threw
      /\ msgs[m].acks = <<ACK>>
      /\ msgs[m].st = "acked"

\* reached: an unknown category and an unknown event of the user category
C4_Witness ==
  \E m1, m2 \in MsgIds :
    /\ OnNotificationQueue(m1) /\ Returned(m1)
    /\ msgs[m1].body.kind = "object" /\ msgs[m1].body.type = UnknownType
    /\ OnNotificationQueue(m2) /\ Returned(m2)
    /\ msgs[m2].body.type = USER_NOTIFICATION /\ msgs[m2].body.event = UnknownEvent

\* C5 as stated: every valid category/event combination runs exactly one
\* handler; every invalid one runs none and throws nothing.
C5_Original ==
  \A m \in MsgIds :
    (OnNotificationQueue(m) /\ Returned(m) /\ msgs[m].body.kind = "object") =>
      IF Unclassified(msgs[m].body)
      THEN DeliveryHandlers(m) = <<>> /\ ~msgs[m].dispatch.threw
      ELSE Len(DeliveryHandlers(m)) = 1

\* ---------------------------------------------------------- the Broker Link
\* C6 as stated: at most one reconnect timer is pending at any time.
C6_Original == timers <= 1

\* C7 as stated: the handleDisconnect of the maxReconnectAttempts-th consecutive
\* failed connect() (and of every later one) schedules no reconnect timer.
C7_Original == [][failures' >= maxReconnectAttempts => timers' <= timers]_vars

\* no reconnect is left: the counter is at its maximum, no timer is pending and
\* no connect() is in flight
Exhausted ==
  reconnectAttempts = maxReconnectAttempts /\ timers = 0 /\ calls = EmptyBag

\* C7 amended: once the attempt counter has reached maxReconnectAttempts (ten
\* reconnect timers scheduled since the last successful connect), no step
\* schedules a further timer and only a successful connect changes the counter;
\* once the pending timers have fired and their connects have failed, the
\* service never starts a connect again.
C7_AttemptsExhausted ==
  /\ [][reconnectAttempts = maxReconnectAttempts =>
          /\ timers' <= timers
          /\ reconnectAttempts' = maxReconnectAttempts \/ last' = "connected"]_vars
  /\ [][Exhausted => Exhausted']_vars

\* reached: the terminal state, after the connect of the last timer failed
C7_Witness == Exhausted /\ last = "connectFailed" /\ ~isShuttingDown

\* C8: the attempt counter stays within 0..maxReconnectAttempts, and the only
\* step that lowers it is the end of a successful connect() (connection and
\* channel open, prefetch resolved), which sets it to 0.
C8_CounterReset ==
  /\ [](reconnectAttempts \in 0..maxReconnectAttempts)
  /\ [][reconnectAttempts' < reconnectAttempts =>
          /\ reconnectAttempts' = 0
          /\ last' = "connected"
          /\ \E c \in ConnIds : chanState[c] = "open" /\ connState[c] = "open"]_vars
  /\ [][reconnectAttempts' > reconnectAttempts =>
          last' \in {"connectFailed", "error", "close"}]_vars

\* reached: a connect() succeeded after a connection that had been fully set
\* up was lost
C8_Witness ==
  /\ last = "connected" /\ reconnectAttempts = 0
  /\ \E c \in ConnIds : connState[c] = "closed" /\ listeners[c] > 0

\* C9: between two successful connects the n-th scheduled timer has the delay
\* reconnectInterval * 1.5^(n-1): the first is the base interval, each later
\* one is 3/2 of the one before it and strictly larger.
C9_Backoff ==
  /\ Len(delays) = reconnectAttempts
  /\ Len(delays) <= maxReconnectAttempts
  /\ Len(delays) >= 1 => delays[1] = reconnectInterval * TimeoutUnit
  /\ \A n \in 2..Len(delays) :
       2 * delays[n] = 3 * delays[n - 1] /\ delays[n] > delays[n - 1]

\* reached: all maxReconnectAttempts timers have been scheduled
C9_Witness == Len(delays) = maxReconnectAttempts

\* connect() calls waiting for amqp.connect
Connecting(b) ==
  CopiesIn(Call("connect", 0, TRUE), b) + CopiesIn(Call("connect", 0, FALSE), b)
\* connections that were ever established
Established(cs) == {c \in ConnIds : cs[c] # "none"}

\* C10 as stated: once the shutting-down flag is set, no step schedules a
\* reconnect timer, starts a connect() or establishes a connection.
C10_Original ==
  [][isShuttingDown =>
       /\ timers' <= timers
       /\ Connecting(calls') <= Connecting(calls)
       /\ Established(connState') \subseteq Established(connState)]_vars

\* ------------------------------------------------ the notification consumer
\* C11 as stated: once the link is up again after a loss or a failed initial
\* connect, a consumer of the notification queue is registered on the new
\* channel, and a notification that arrives then is eventually delivered.
C11_Original ==
  /\ (LinkUp /\ consumerInit = "done" /\ ~isShuttingDown)
       ~> (~LinkUp \/ isShuttingDown \/ channel \in consumers)
  /\ (arrival = "queued" /\ ~isShuttingDown)
       ~> (arrival = "delivered" \/ ~LinkUp \/ isShuttingDown)

\* ------------------------------------------------------------ InAppGateway
\* C12 as stated: every socket id stored in the user mapping or in the topic
\* mapping belongs to a currently connected socket.
C12_Original ==
  \A s \in SocketIds :
    (InUserMap(userSocketMap, s) \/ InTopicMap(topicSubscriptions, s)) =>
      sockets[s] = "connected"

\* C13: a registerUser(u, e) that found neither an entry for u nor an
\* occurrence of e, followed by unregisterUser(u) of e or by the disconnect of
\* e, leaves no entry for u and no occurrence of e in either mapping.
C13_RegisterUnregister ==
  (gwLast.op \in {"unregisterUser", "disconnect"} /\ gwLast.fresh) =>
    /\ ~MapHas(userSocketMap, gwLast.user)
    /\ ~InUserMap(userSocketMap, gwLast.socket)
    /\ ~InTopicMap(topicSubscriptions, gwLast.socket)

\* reached: a fresh registration undone by the disconnect of the socket
C13_Witness ==
  gwLast.op = "disconnect" /\ gwLast.fresh /\ gwLast.socket \in SocketIds

HandlerCalls == {"registerUser", "unregisterUser", "subscribeTopic", "unsubscribeTopic"}

\* C14: registering a (user, socket) pair or subscribing a socket to topics it
\* is already stored under, and unregistering or unsubscribing a socket that
\* is not stored, leave both mappings as they were and answer success; no
\* list of the user mapping holds a socket twice.
C14_Idempotent ==
  /\ \A i \in DOMAIN userSocketMap :
       \A j, k \in DOMAIN userSocketMap[i].val :
         userSocketMap[i].val[j] = userSocketMap[i].val[k] => j = k
  /\ gwLast.op \in HandlerCalls =>
       /\ gwLast.returned = "success"
       /\ gwLast.noop => gwLast.same

\* reached: a pair registered a second time while other calls changed the
\* mappings in between
C14_Witness ==
  /\ gwLast.op = "registerUser" /\ gwLast.noop
  /\ topicSubscriptions # <<>>

\* the sockets stored for a topic
Subscribers(topic) ==
  IF topic \in DOMAIN topicSubscriptions THEN topicSubscriptions[topic] ELSE {}

\* C15 as stated: a send to a topic reaches only sockets subscribed to that
\* topic at the time of the send.
C15_Original ==
  gwLast.op = "sendNotificationToTopic" =>
    /\ gwLast.to \subseteq Subscribers(gwLast.topic)
    /\ \A s \in gwLast.to : TopicRoom(gwLast.topic) \in rooms[s]

\* C16 as stated: whatever the order of its calls, a socket that has
\* disconnected is in neither mapping and in no room.
C16_Original ==
  [][\A s \in SocketIds :
       sockets'[s] = "disconnected" =>
         /\ ~InUserMap(userSocketMap', s)
         /\ ~InTopicMap(topicSubscriptions', s)
         /\ rooms'[s] = {}]_vars

\* C17: a send to a user answers false and reaches nobody while the server is
\* not initialized; once it is, a send to a user with no entry in the user
\* mapping reaches nobody; a send never changes the mappings.
C17_SendToUser ==
  /\ [](gwLast.op = "sendNotificationToUser" =>
          /\ ~isServerInitialized => gwLast.returned = "false" /\ gwLast.to = {}
          /\ (isServerInitialized /\ ~MapHas(userSocketMap, gwLast.user)) =>
               gwLast.returned = "true" /\ gwLast.to = {})
  /\ [][gwLast'.op = "sendNotificationToUser" =>
          /\ userSocketMap' = userSocketMap
          /\ topicSubscriptions' = topicSubscriptions
          /\ rooms' = rooms]_vars

\* reached: a send to a user without an entry while a socket of another user
\* is connected and registered
C17_Witness ==
  /\ gwLast.op = "sendNotificationToUser" /\ isServerInitialized
  /\ ~MapHas(userSocketMap, gwLast.user)
  /\ \E u \in UserIds : InRoom(UserRoom(u)) # {}

\* -------------------------------------------------------------- BmiService
Handled == bmi.pc = "done" /\ bmi.env.settings = "found"

\* the collaborators that fail for the event handled last
Failing ==
  {f \in {"email", "log", "persist", "push"} :
     \/ f = "email" /\ ~bmi.env.sent
     \/ f = "log" /\ ~bmi.env.logOk
     \/ f = "persist" /\ ~bmi.env.inAppOk
     \/ f = "push" /\ ~bmi.env.ready}

\* C18 as stated: with the user's settings found (and a time zone in them),
\* when one of the email sink, the log sink, the persistence create and the
\* push transport fails, every enabled sink is still attempted, the handler
\* returns normally and the message is acked.
C18_Original ==
  (Handled /\ bmi.env.timezone /\ Cardinality(Failing) = 1) =>
    /\ bmi.env.email_notification => bmi.out.sinks.email = 1
    /\ bmi.env.in_app_notification => bmi.out.sinks.inapp = 1
    /\ ~bmi.threw
    /\ bmi.acks = <<ACK>>

\* C19 as stated: with email and in-app both enabled (a time zone in the
\* settings, persistence and push transport working), a BMI event causes
\* exactly one email-sink call and exactly one persistence create call, also
\* when the email sink answers false.
C19_Original ==
  (Handled /\ bmi.env.timezone /\ bmi.env.email_notification
     /\ bmi.env.in_app_notification /\ bmi.env.inAppOk /\ bmi.env.ready) =>
    bmi.out.sinks.email = 1 /\ bmi.out.sinks.inapp = 1

\* C20: when findOne returns no settings for the recipient, no email is sent,
\* no record is created, nothing is pushed, no log record is written, the
\* handler returns normally and the message is acked.
C20_NoSettings ==
  (bmi.pc = "done" /\ bmi.env.settings = "none") =>
    /\ bmi.out.sinks = NoSinks
    /\ bmi.out.push = 0 /\ ~bmi.out.pushed
    /\ ~bmi.threw
    /\ bmi.acks = <<ACK>>

\* reached: an event without settings while every collaborator would answer
C20_Witness ==
  /\ bmi.pc = "done" /\ bmi.env.settings = "none"
  /\ bmi.env.timezone /\ bmi.env.logOk /\ bmi.env.inAppOk /\ bmi.env.ready

\* C21 as stated: every delivery attempt of the BMI handler, by email or
\* in-app, sent or not, produces exactly one record through
\* ServiceLogsService.create. Stated for events whose collaborators all
\* answer, so that no attempt is cut short by an error.
C21_Original ==
  (Handled /\ bmi.env.timezone /\ bmi.env.logOk /\ bmi.env.inAppOk
     /\ bmi.env.ready) =>
    bmi.out.sinks.logs = bmi.out.sinks.email + bmi.out.sinks.inapp

\* ------------------------------------------------------- poison messages
\* C22 as stated: a message whose body cannot be decoded is requeued only
\* finitely often on both consume paths: by its last delivery within the
\* bound the callback no longer puts it back on the queue.
C22_Original ==
  \A m \in MsgIds :
    (msgs[m].body = Malformed /\ Returned(m) /\ msgs[m].del = MaxDeliveries) =>
      msgs[m].st # "queued"

\* -------------------------------------------------------- closeConnection
\* C23: closeConnection never lets an error out; it calls the close of the
\* channel before the close of the connection when both exist, and when
\* neither exists it makes no close call and returns at once.
C23_CloseOrder ==
  /\ [](shutdown.pc \in {"idle", "channel.close", "connection.close", "done"})
  /\ [](\A i, j \in DOMAIN closeLog :
          (closeLog[i] = "connection" /\ closeLog[j] = "channel") => j < i)
  /\ [][(shutdown.pc = "idle" /\ shutdown'.pc # "idle") =>
          /\ (channel # 0 /\ connection # 0) =>
                closeLog' = <<"channel">> /\ shutdown'.pc = "channel.close"
          /\ (channel = 0 /\ connection = 0) =>
                closeLog' = <<>> /\ shutdown'.pc = "done"]_vars
  /\ [][shutdown.pc \in {"channel.close", "connection.close"} =>
          shutdown'.pc \in {shutdown.pc, "connection.close", "done"}]_vars

\* reached: both closes were called in order and the second one failed, and
\* closeConnection returned
C23_Witness ==
  /\ shutdown.pc = "done" /\ last = "closeFailed"
  /\ closeLog = <<"channel", "connection">>

\* C24 as stated: when a connection exists at the call of closeConnection,
\* the close of the connection is attempted before closeConnection returns,
\* also when the close of the channel fails.
C24_Original ==
  (shutdown.pc = "done" /\ closeLog # <<>>) =>
    closeLog[Len(closeLog)] = "connection"

\* ------------------------------------------------------ the gateway's maps
\* C25: after any sequence of register, unregister, subscribe, unsubscribe
\* and disconnect, userSocketMap holds no empty list and topicSubscriptions
\* holds no empty set: the entry is deleted with its last socket.
C25_NoEmptyEntry ==
  /\ \A i \in DOMAIN userSocketMap : userSocketMap[i].val # <<>>
  /\ \A k \in DOMAIN topicSubscriptions : topicSubscriptions[k] # {}

\* reached: an unsubscribe took the last socket of a topic away while the
\* socket is still registered for a user and subscribed to another topic
C25_Witness ==
  /\ gwLast.op = "unsubscribeTopic" /\ ~gwLast.same
  /\ userSocketMap # <<>>
  /\ DOMAIN topicSubscriptions # {}

\* the sockets stored for a user
SocketsOf(userId) ==
  IF MapHas(userSocketMap, userId)
  THEN {MapGet(userSocketMap, userId)[i] :
          i \in DOMAIN MapGet(userSocketMap, userId)}
  ELSE {}

\* C29 as stated: in every state reached by register, unregister and
\* disconnect, the sockets a send to user u reaches (the members of the room
\* of u) are the sockets stored for u in userSocketMap.
C29_Original ==
  \A u \in UserIds : InRoom(UserRoom(u)) = SocketsOf(u)

\* ------------------------------------------------- one transport connection
\* C28 as stated: at every moment at most one transport connection to the
\* broker is open; no earlier connection stays open, unreferenced, after a
\* newer one was established.
C28_Original ==
  Cardinality({c \in ConnIds : connState[c] = "open"}) <= 1

\* ------------------------------------------------------------- prefetch(1)
\* the messages of queue q a consumer holds unacknowledged / whose callback
\* is running
Unacked(q) == {m \in MsgIds : msgs[m].q = q /\ msgs[m].st = "unacked"}
Running(q) == {m \in MsgIds : msgs[m].q = q /\ msgs[m].cb = "running"}

\* C26: with prefetch 1 a consumer never holds more than one unacknowledged
\* message and no two of its handler invocations overlap: a message is
\* delivered to the callback only when the previous one was acked or nacked,
\* which the callback does after its handler has settled.
C26_OneUnacked ==
  /\ [](\A q \in Queues :
          Cardinality(Unacked(q)) <= 1 /\ Cardinality(Running(q)) <= 1)
  /\ [][\A m \in MsgIds :
          (msgs[m].cb # "running" /\ msgs'[m].cb = "running") =>
            Running(msgs'[m].q) = {}]_vars

\* reached: a second notification is with its handler after the first one
\* was acknowledged
C26_Witness ==
  \E m1, m2 \in MsgIds :
    /\ msgs[m1].q = "notification" /\ msgs[m2].q = "notification"
    /\ Returned(m1) /\ msgs[m1].st = "acked"
    /\ msgs[m2].cb = "running" /\ msgs[m2].st = "unacked"

\* ------------------------------------------- the channel of an ack or nack
\* C27 as stated: the ack or nack of a delivered message is issued on the
\* channel the message was delivered on; in particular, when the connection
\* of that channel dropped and a reconnect replaced the channel of the
\* service while the handler was running, it is not sent on the new channel.
C27_Original ==
  (handling.pc = "done" /\ connState[handling.on] = "closed") =>
    handling.ackOn = handling.on

\* ------------------------------------------------------------ soft delete
\* C30 as stated: a soft-deleted record is not returned by
\* getUserNotifications, is not counted by countUnreadForUser, and a call of
\* the controller to mark it read or to delete it again answers not-found
\* and leaves it as it is.
C30_Original ==
  /\ storeLast.op = "getUserNotifications" =>
       \A n \in storeLast.data : ~store[n].is_deleted
  /\ storeLast.op = "countUserUnreadNotifications" =>
       storeLast.count =
         Cardinality({n \in Documents(store) :
                        /\ store[n].user_id = storeLast.user_id
                        /\ ~store[n].is_read /\ ~store[n].is_deleted})
  /\ (storeLast.op \in {"markAsRead", "softDelete"} /\ storeLast.wasDeleted) =>
       storeLast.status = "not_found"

====
